---------------------------- MODULE Spec2Model ----------------------------
(***************************************************************************)
(* Ripple Effect (src/game.js): the round / timer / drop state machine.    *)
(*                                                                         *)
(* Units.  waterPercent is a JavaScript number that moves in steps of 6,   *)
(* 10 and 1.2; the model keeps it in TENTHS of a percent, so that 100%     *)
(* is 1000, a clean tap adds 60, a polluted tap takes 100 and a missed     *)
(* clean drop takes 12.  Lengths on the canvas are in units of one drop    *)
(* radius (d.size), so that the 60px margin below the canvas is OffMargin  *)
(* radii.  Date.now() and performance.now() are inputs of the environment: *)
(* the comparison at the head of update() is an input of the frame.        *)
(***************************************************************************)
EXTENDS Integers, Sequences, FiniteSets, TLC

VARIABLES
    running,            \* let running            (game.js:38)
    paused,             \* let paused             (game.js:39)
    drops,              \* let drops = []         (game.js:40)
    lastSpawn,          \* let lastSpawn: 0 = never in this round, 1 = a Date.now() stamp
    spawnInterval,      \* let spawnInterval      (game.js:42), milliseconds
    score,              \* let score              (game.js:43)
    lives,              \* let lives              (game.js:44)
    waterPercent,       \* let waterPercent       (game.js:45), tenths of a percent
    timeLeft,           \* let timeLeft           (game.js:47), seconds
    timerId,            \* let timerId            (game.js:48), 0 = null
    animationId,        \* let animationId        (game.js:49), 0 = null
    currentDifficulty,  \* let currentDifficulty  (game.js:52)
    milestonesReached,  \* let milestonesReached  (game.js:64)
    intervals,          \* the browser's live setInterval timers (ids)
    frames,             \* the browser's pending requestAnimationFrame callbacks (ids)
    startBtnDisabled,   \* startBtn.disabled
    pauseBtnDisabled,   \* pauseBtn.disabled
    resultsShown,       \* results.classList.contains('show')
    resultsTitle,       \* resultsTitle.textContent
    roundTicks,         \* observer: countdown callbacks since startRound, -1 once the
                        \*   round was paused, restarted or ended otherwise than by them
    roundDifficulty,    \* observer: currentDifficulty when startRound last ran
    pausedAt,           \* observer: timeLeft when pauseGame last paused, -1 when not paused
    missed              \* observer: <<clean, polluted>> drops the last frame's update removed

vars == <<running, paused, drops, lastSpawn, spawnInterval, score, lives,
          waterPercent, timeLeft, timerId, animationId, currentDifficulty,
          milestonesReached, intervals, frames, startBtnDisabled,
          pauseBtnDisabled, resultsShown, resultsTitle,
          roundTicks, roundDifficulty, pausedAt, missed>>

-----------------------------------------------------------------------------
(* Bounds of the exploration *)

PlayDrops == 2         \* drops alive at once, in SpecPlay
FillDrops == 1         \* drops alive at once, in SpecFill
PlayScore == 20        \* SpecPlay explores taps while score is below this
MaxIntervals == 2      \* live setInterval timers at once
MaxScore == 180        \* clean taps are explored while score is below this
MaxFall == 2           \* radii a drop falls in one frame, at most
CanvasW == 2           \* canvas._w in radii (the page's layout decides it)
CanvasH == 1           \* canvas._h in radii (the page's layout decides it)

-----------------------------------------------------------------------------
(* Program constants *)

roundTime == 30        \* const roundTime = 30
WaterFull == 1000      \* 100 (percent)
CleanWater == 60       \* + 6
PollutedWater == 100   \* - 10
MissWater == 12        \* - 1.2
CleanScore == 10       \* score += 10
OffMargin == 2         \* canvas._h + 60, in radii of a 30px drop
DefaultLives == 3      \* let lives = 3; resetGame: lives = 3
DefaultInterval == 700 \* let spawnInterval = 700
DropSize == 1          \* d.size: the unit of length

Difficulties == {"easy", "normal", "hard"}

difficultySettings ==
    [ easy   |-> [spawnInterval |-> 950, spawnMin |-> 520, spawnAccel |-> 10,
                  roundTime |-> 45, lives |-> 5],
      normal |-> [spawnInterval |-> 650, spawnMin |-> 340, spawnAccel |-> 14,
                  roundTime |-> 30, lives |-> 3],
      hard   |-> [spawnInterval |-> 420, spawnMin |-> 220, spawnAccel |-> 18,
                  roundTime |-> 20, lives |-> 2] ]

milestones == <<50, 100, 150>>

Max(a, b) == IF a >= b THEN a ELSE b
Min(a, b) == IF a <= b THEN a ELSE b

\* The id setInterval / requestAnimationFrame hands out: one not live now.
FreshId(live) == CHOOSE i \in 1..(Cardinality(live) + 1) : i \notin live

-----------------------------------------------------------------------------
(* Init: the module-level lets of game.js, lines 38-64, and the page as loaded *)

Init ==
    /\ running = FALSE
    /\ paused = FALSE
    /\ drops = <<>>
    /\ lastSpawn = 0
    /\ spawnInterval = DefaultInterval
    /\ score = 0
    /\ lives = DefaultLives
    /\ waterPercent = 0
    /\ timeLeft = roundTime
    /\ timerId = 0
    /\ animationId = 0
    /\ currentDifficulty = "normal"
    /\ milestonesReached = <<>>
    /\ intervals = {}
    /\ frames = {}
    /\ startBtnDisabled = FALSE
    /\ pauseBtnDisabled = TRUE
    /\ resultsShown = FALSE
    /\ resultsTitle = ""
    /\ roundTicks = -1
    /\ roundDifficulty = "normal"
    /\ pausedAt = -1
    /\ missed = <<0, 0>>

-----------------------------------------------------------------------------
(* Timer: startTimer, stopTimer (game.js:459-466) *)

\* A startTimer that leaves timeLeft as it finds it.
StartTimerTimeLeftKept(tl) == tl

\* startTimer's first statement: timeLeft = roundTime, whatever it was (tl).
StartTimerTimeLeft(tl) == roundTime

\* startTimer: the new interval is added to the live ones; the old timerId,
\* if any, is overwritten and not cleared.
StartTimerIntervals(live) == live \cup {FreshId(live)}

\* stopTimer: if(timerId) clearInterval(timerId); timerId = null
StopTimerIntervals(live, id) == live \ {id}

\* One callback of a countdown interval: timeLeft -= 1.
TickTimeLeft(tl) == tl - 1

\* A cancelAnimationFrame that cancels nothing.
CancelAnimationFrameForgotten(pending, id) == pending

\* cancelAnimationFrame(id): the pending callback id, if any, will not run.
CancelAnimationFrame(pending, id) == pending \ {id}

\* An end of round that leaves paused as it finds it.
PausedClearedKept(p) == p

\* paused = false, in endRound (line 490) and resetGame (line 506)
PausedCleared(p) == FALSE

\* The title endRound writes (game.js:495), for a waterPercent of w tenths.
EndRoundTitle(w) == IF w >= WaterFull THEN "Well Built!" ELSE "Round Complete"

\* endRound (game.js:489-504), run when waterPercent is w: the variables it writes.
endRound(w) ==
    /\ running' = FALSE
    /\ paused' = PausedCleared(paused)
    /\ intervals' = StopTimerIntervals(intervals, timerId)
    /\ timerId' = 0
    /\ frames' = CancelAnimationFrame(frames, animationId)
    /\ startBtnDisabled' = FALSE
    /\ pauseBtnDisabled' = TRUE
    /\ resultsShown' = TRUE
    /\ resultsTitle' = EndRoundTitle(w)
    /\ pausedAt' = -1

notEndRound ==
    UNCHANGED <<running, paused, intervals, timerId, frames, startBtnDisabled,
                pauseBtnDisabled, resultsShown, resultsTitle, pausedAt>>

\* A countdown that never sees its end.
TimerDoneNever(t) == FALSE

\* The callback's test, line 462: if(timeLeft <= 0)
TimerDone(t) == t <= 0

\* The callback startTimer hands to setInterval (game.js:461-464), run by live
\* interval i.
TimerTick(i) ==
    /\ i \in intervals
    /\ LET t == TickTimeLeft(timeLeft) IN
         IF TimerDone(t)
           THEN /\ timeLeft' = 0
                /\ endRound(waterPercent)
           ELSE /\ timeLeft' = t
                /\ notEndRound
    /\ roundTicks' = IF running /\ roundTicks >= 0 THEN roundTicks + 1 ELSE roundTicks
    /\ UNCHANGED <<drops, lastSpawn, spawnInterval, score, lives, waterPercent,
                   animationId, currentDifficulty, milestonesReached,
                   roundDifficulty>>
    /\ missed' = <<0, 0>>

-----------------------------------------------------------------------------
(* Round control: startRound, resetGame, pauseGame, resumeGame *)

\* A startRound that gives the default lives, as resetGame does.
StartLivesDefault(settings) == DefaultLives

\* line 474: lives = settings.lives
StartLives(settings) == settings.lives

\* startRound (game.js:469-488).  timeLeft is first set from the difficulty
\* (line 475) and then by startTimer (line 481).  A start is explored while
\* fewer than MaxIntervals intervals are live.
startRound ==
    /\ Cardinality(intervals) < MaxIntervals
    /\ LET settings == difficultySettings[currentDifficulty] IN
         /\ spawnInterval' = settings.spawnInterval
         /\ lives' = StartLives(settings)
         /\ timeLeft' = StartTimerTimeLeft(settings.roundTime)
    /\ milestonesReached' = <<>>
    /\ drops' = <<>>
    /\ lastSpawn' = 0
    /\ running' = TRUE
    /\ paused' = FALSE
    /\ score' = 0
    /\ waterPercent' = 0
    /\ resultsShown' = FALSE
    /\ intervals' = StartTimerIntervals(intervals)
    /\ timerId' = FreshId(intervals)
    /\ LET rest == CancelAnimationFrame(frames, animationId) IN
         /\ animationId' = FreshId(rest)
         /\ frames' = rest \cup {FreshId(rest)}
    /\ startBtnDisabled' = TRUE
    /\ pauseBtnDisabled' = FALSE
    /\ roundTicks' = 0
    /\ roundDifficulty' = currentDifficulty
    /\ pausedAt' = -1
    /\ missed' = <<0, 0>>
    /\ UNCHANGED <<currentDifficulty, resultsTitle>>

\* resetGame (game.js:505-511)
resetGame ==
    /\ running' = FALSE
    /\ paused' = PausedCleared(paused)
    /\ intervals' = StopTimerIntervals(intervals, timerId)
    /\ timerId' = 0
    /\ drops' = <<>>
    /\ score' = 0
    /\ lives' = DefaultLives
    /\ waterPercent' = 0
    /\ timeLeft' = roundTime
    /\ resultsShown' = FALSE
    /\ frames' = CancelAnimationFrame(frames, animationId)
    /\ startBtnDisabled' = FALSE
    /\ pauseBtnDisabled' = TRUE
    /\ roundTicks' = -1
    /\ pausedAt' = -1
    /\ UNCHANGED <<lastSpawn, spawnInterval, animationId, currentDifficulty,
                   milestonesReached, resultsTitle, roundDifficulty>>
    /\ missed' = <<0, 0>>

\* pauseGame (game.js:577-582)
pauseGame ==
    IF paused \/ ~running
      THEN UNCHANGED vars
      ELSE /\ paused' = TRUE
           /\ intervals' = StopTimerIntervals(intervals, timerId)
           /\ timerId' = 0
           /\ pausedAt' = timeLeft
           /\ roundTicks' = -1
           /\ UNCHANGED <<running, drops, lastSpawn, spawnInterval, score, lives,
                          waterPercent, timeLeft, animationId, currentDifficulty,
                          milestonesReached, frames, startBtnDisabled,
                          pauseBtnDisabled, resultsShown, resultsTitle,
                          roundDifficulty>>
           /\ missed' = <<0, 0>>

\* resumeGame (game.js:583-588)
resumeGame ==
    IF ~paused
      THEN UNCHANGED vars
      ELSE /\ Cardinality(intervals) < MaxIntervals
           /\ paused' = FALSE
           /\ timeLeft' = StartTimerTimeLeft(timeLeft)
           /\ intervals' = StartTimerIntervals(intervals)
           /\ timerId' = FreshId(intervals)
           /\ pausedAt' = -1
           /\ UNCHANGED <<running, drops, lastSpawn, spawnInterval, score, lives,
                          waterPercent, animationId, currentDifficulty,
                          milestonesReached, frames, startBtnDisabled,
                          pauseBtnDisabled, resultsShown, resultsTitle,
                          roundTicks, roundDifficulty>>
           /\ missed' = <<0, 0>>

-----------------------------------------------------------------------------
(* Drops: createDrop, spawnDrop, update, render (game.js:129-152, 225-253, 402) *)

\* rand(size * 2, canvas._w - size * 2): any value between the two, whichever
\* is the larger (game.js:127, 133).
SpawnXs ==
    Min(2 * DropSize, CanvasW - 2 * DropSize) .. Max(2 * DropSize, CanvasW - 2 * DropSize)

\* What one frame's d.vx * dt can add to d.x (vx has either sign).
Drifts == {-1, 0, 1}

\* createDrop: the fields the game logic reads.  y starts at -size * 2.
createDrop(isPolluted, x) == [x |-> x, y |-> 0 - 2 * DropSize, polluted |-> isPolluted]

\* update, lines 229-235: the interval update assigns after a spawn.
NextSpawnInterval(difficulty, tl) ==
    LET s == difficultySettings[difficulty]
        elapsed == s.roundTime - tl
    IN  Max(s.spawnMin, s.spawnInterval - elapsed * s.spawnAccel)

\* update, lines 239-240: d.y += d.speed * dt; d.x += d.vx * dt
MoveDrop(d, fall, drift) == [d EXCEPT !.y = @ + fall, !.x = @ + drift]

\* update, line 246: the drop is past the bottom of the canvas.
Fallen(d) == d.y - DropSize > CanvasH + OffMargin

\* update, lines 250-251: bounce off the side walls.
ClampDrop(d) ==
    LET a == IF d.x - DropSize < 0 THEN [d EXCEPT !.x = DropSize] ELSE d
    IN  IF a.x + DropSize > CanvasW THEN [a EXCEPT !.x = CanvasW - DropSize] ELSE a

\* A miss penalty without its floor at 0.
MissPenaltyNoFloor(w) == w - MissWater

\* update, line 248: one missed clean drop.
MissPenalty(w) == Max(0, w - MissWater)

RECURSIVE MissPenalties(_, _)
MissPenalties(w, k) == IF k = 0 THEN w ELSE MissPenalties(MissPenalty(w), k - 1)

\* render, line 402: drops.sort((a,b) => a.y - b.y), a stable sort.
RECURSIVE InsertByY(_, _)
InsertByY(sorted, d) ==
    IF sorted = <<>> THEN <<d>>
    ELSE IF sorted[Len(sorted)].y <= d.y THEN Append(sorted, d)
    ELSE Append(InsertByY(SubSeq(sorted, 1, Len(sorted) - 1), d), sorted[Len(sorted)])

RECURSIVE SortByY(_)
SortByY(ds) ==
    IF ds = <<>> THEN <<>>
    ELSE InsertByY(SortByY(SubSeq(ds, 1, Len(ds) - 1)), ds[Len(ds)])

\* What update may push in one frame: nothing, or one new drop.  With
\* lastSpawn = 0 the comparison Date.now() - lastSpawn > spawnInterval is true.
\* No spawn is explored once cap drops are alive.
SpawnInputs(cap) ==
    IF Len(drops) >= cap THEN {<<>>}
    ELSE (IF lastSpawn = 0 THEN {} ELSE {<<>>})
         \cup {<<createDrop(p, x)>> : p \in BOOLEAN, x \in SpawnXs}

\* Where one frame of update can leave drop d: lines 239-240, then 250-251.
Moves(d) == {ClampDrop(MoveDrop(d, fall, drift)) : fall \in 1..MaxFall, drift \in Drifts}

\* The for loop of update over drops ds, before the splice of the fallen ones:
\* every way the frame can move them.
RECURSIVE MovedDrops(_)
MovedDrops(ds) ==
    IF ds = <<>> THEN {<<>>}
    ELSE {Append(front, m) : front \in MovedDrops(SubSeq(ds, 1, Len(ds) - 1)),
                             m \in Moves(ds[Len(ds)])}

\* update(dt) (game.js:225-253): the outcomes one call can have, as records
\* of what it leaves in drops and waterPercent, whether it spawned, and how
\* many <<clean, polluted>> drops it removed past the bottom.
update(cap) ==
    UNION { { LET gone  == {i \in 1..Len(moved) : Fallen(moved[i])}
                  clean == Cardinality({i \in gone : ~moved[i].polluted})
              IN  [drops   |-> SelectSeq(moved, LAMBDA d : ~Fallen(d)),
                   water   |-> MissPenalties(waterPercent, clean),
                   missed  |-> <<clean, Cardinality(gone) - clean>>,
                   spawned |-> sp # <<>>]
              : moved \in MovedDrops(drops \o sp) }
            : sp \in SpawnInputs(cap) }

\* loop (game.js:411-417): one animation frame.  update runs unless paused,
\* render sorts drops, and the next frame is requested.  cap bounds the drops
\* alive at once.
loop(cap) ==
    /\ animationId \in frames
    /\ LET rest == frames \ {animationId} IN
         /\ animationId' = FreshId(rest)
         /\ frames' = rest \cup {FreshId(rest)}
    /\ IF paused
         THEN /\ drops' = SortByY(drops)
              /\ missed' = <<0, 0>>
              /\ UNCHANGED <<lastSpawn, spawnInterval, waterPercent>>
         ELSE \E u \in update(cap) :
                /\ drops' = SortByY(u.drops)
                /\ waterPercent' = u.water
                /\ missed' = u.missed
                /\ lastSpawn' = IF u.spawned THEN 1 ELSE lastSpawn
                /\ spawnInterval' =
                     IF u.spawned
                       THEN NextSpawnInterval(currentDifficulty, timeLeft)
                       ELSE spawnInterval
    /\ UNCHANGED <<running, paused, score, lives, timeLeft, timerId,
                   currentDifficulty, milestonesReached, intervals,
                   startBtnDisabled, pauseBtnDisabled, resultsShown, resultsTitle,
                   roundTicks, roundDifficulty, pausedAt>>

-----------------------------------------------------------------------------
(* Pointer: handlePointer, checkMilestones, checkGameOver (game.js:420-445, 512, 731-739) *)

\* line 430-431: dist < d.size * 1.8, squared and times 100
Hit(d, x, y) ==
    100 * ((d.x - x) * (d.x - x) + (d.y - y) * (d.y - y)) < 324 * DropSize * DropSize

\* The for loop runs from the last drop down: the hit drop is the last one in
\* range, 0 when none is.
HitIndex(ds, x, y) ==
    LET hits == {i \in 1..Len(ds) : Hit(ds[i], x, y)}
    IN  IF hits = {} THEN 0 ELSE CHOOSE i \in hits : \A j \in hits : j <= i

\* drops.splice(i, 1)
RemoveAt(ds, i) == SubSeq(ds, 1, i - 1) \o SubSeq(ds, i + 1, Len(ds))

\* Hits with a bound forgotten or a wrong amount.
PollutedWaterAfterNoFloor(w) == w - PollutedWater
CleanScoreAfterOne(sc) == sc + 1
CleanWaterAfterUncapped(w) == w + CleanWater

\* line 433 and line 437: the four assignments of a hit
PollutedLives(l) == Max(0, l - 1)
PollutedWaterAfter(w) == Max(0, w - PollutedWater)
CleanScoreAfter(sc) == sc + CleanScore
CleanWaterAfter(w) == Min(WaterFull, w + CleanWater)

\* A checkMilestones without its includes test.
checkMilestonesNoIncludes(sc, reached) ==
    reached \o SelectSeq(milestones, LAMBDA m : sc >= m)

\* checkMilestones: each milestone the score has reached and that was not yet
\* announced is pushed, in the order of the milestones array.
checkMilestones(sc, reached) ==
    reached \o SelectSeq(milestones,
                 LAMBDA m : sc >= m /\ \A k \in 1..Len(reached) : reached[k] # m)

\* A checkGameOver that forgets the water meter.
GameOverLivesOnly(l, w) == l <= 0

\* checkGameOver's condition
GameOver(l, w) == l <= 0 \/ w >= WaterFull

\* A handlePointer that never returns early.
PointerIgnoredNever(r) == FALSE

\* line 421: if(!running) return
PointerIgnored(r) == ~r

\* handlePointer for a tap at canvas position (x, y)
handlePointer(x, y) ==
    LET i == HitIndex(drops, x, y) IN
    IF PointerIgnored(running) \/ i = 0
      THEN UNCHANGED vars
      ELSE LET d  == drops[i]
               l2 == IF d.polluted THEN PollutedLives(lives) ELSE lives
               w2 == IF d.polluted THEN PollutedWaterAfter(waterPercent)
                                   ELSE CleanWaterAfter(waterPercent)
               s2 == IF d.polluted THEN score ELSE CleanScoreAfter(score)
           IN  /\ d.polluted \/ score < MaxScore
               /\ lives' = l2
               /\ waterPercent' = w2
               /\ score' = s2
               /\ milestonesReached' =
                    IF d.polluted THEN milestonesReached
                    ELSE checkMilestones(s2, milestonesReached)
               /\ drops' = RemoveAt(drops, i)
               /\ IF GameOver(l2, w2)
                    THEN endRound(w2) /\ roundTicks' = -1
                    ELSE notEndRound /\ UNCHANGED roundTicks
               /\ missed' = <<0, 0>>
               /\ UNCHANGED <<lastSpawn, spawnInterval, timeLeft, animationId,
                              currentDifficulty, roundDifficulty>>

-----------------------------------------------------------------------------
(* The event handlers the page registers *)

\* canvas click / touchstart (game.js:446-447)
CanvasPointer == \E x \in 0..CanvasW, y \in 0..CanvasH : handlePointer(x, y)

\* startBtn click (game.js:515); a disabled button fires no click
StartBtnClick == ~startBtnDisabled /\ startRound

\* canvas keydown, Space or Enter (game.js:764)
CanvasKeyStart == startRound

\* resetBtn click (game.js:517)
ResetBtnClick == resetGame

\* The toggle shared by the pause button and the P key (game.js:516, 572-574)
PauseToggle ==
    IF ~running /\ ~paused THEN UNCHANGED vars
    ELSE IF paused THEN resumeGame ELSE pauseGame

PauseBtnClick == ~pauseBtnDisabled /\ PauseToggle

KeyP == PauseToggle

\* visibilitychange with document.hidden (game.js:727)
VisibilityHidden == IF running /\ ~paused THEN pauseGame ELSE UNCHANGED vars

\* .btn-difficulty click (game.js:750-761)
DifficultyClick(d) ==
    /\ currentDifficulty' = d
    /\ lives' = IF ~running THEN difficultySettings[d].lives ELSE lives
    /\ missed' = <<0, 0>>
    /\ UNCHANGED <<running, paused, drops, lastSpawn, spawnInterval, score,
                   waterPercent, timeLeft, timerId, animationId,
                   milestonesReached, intervals, frames, startBtnDisabled,
                   pauseBtnDisabled, resultsShown, resultsTitle,
                   roundTicks, roundDifficulty, pausedAt>>

Tick == \E i \in intervals : TimerTick(i)

\* The timer and the round controls, with an empty canvas: every handler but
\* the frame and the pointer.
Next ==
    \/ StartBtnClick
    \/ CanvasKeyStart
    \/ ResetBtnClick
    \/ PauseBtnClick
    \/ KeyP
    \/ VisibilityHidden
    \/ \E d \in Difficulties : DifficultyClick(d)
    \/ Tick

Spec == Init /\ [][Next]_vars

\* A round that is not restarted while it runs: the timer and the round
\* controls without the canvas key.  A live setInterval timer fires again and
\* again (every 1000 ms): the countdown is weakly fair.
NextLive ==
    \/ StartBtnClick
    \/ ResetBtnClick
    \/ PauseBtnClick
    \/ KeyP
    \/ VisibilityHidden
    \/ \E d \in Difficulties : DifficultyClick(d)
    \/ Tick

SpecLive == Init /\ [][NextLive]_vars /\ WF_vars(Tick)

\* Rounds started and restarted on every difficulty, over whatever the round
\* before left: drops, a score, a paused game.  Up to FillDrops drops, the
\* taps explored while score is below PlayScore.
NextRestart ==
    \/ StartBtnClick
    \/ CanvasKeyStart
    \/ ResetBtnClick
    \/ KeyP
    \/ \E d \in Difficulties : DifficultyClick(d)
    \/ (score < PlayScore /\ CanvasPointer)
    \/ loop(FillDrops)

SpecRestart == Init /\ [][NextRestart]_vars

\* The start of a round with its drops, on the default difficulty: up to
\* PlayDrops drops, the taps explored while score is below PlayScore.
NextPlay ==
    \/ StartBtnClick
    \/ CanvasKeyStart
    \/ ResetBtnClick
    \/ PauseBtnClick
    \/ KeyP
    \/ VisibilityHidden
    \/ (score < PlayScore /\ CanvasPointer)
    \/ loop(PlayDrops)

SpecPlay == Init /\ [][NextPlay]_vars

\* A whole round of taps on the default difficulty, up to a full water meter,
\* one drop at a time.
NextFill ==
    \/ StartBtnClick
    \/ ResetBtnClick
    \/ PauseBtnClick
    \/ KeyP
    \/ VisibilityHidden
    \/ CanvasPointer
    \/ loop(FillDrops)

SpecFill == Init /\ [][NextFill]_vars

\* The spawn curve: the difficulties, the countdown and the frames, with no
\* tap; up to FillDrops drops.
NextSpawn ==
    \/ StartBtnClick
    \/ PauseBtnClick
    \/ \E d \in Difficulties : DifficultyClick(d)
    \/ Tick
    \/ loop(FillDrops)

SpecSpawn == Init /\ [][NextSpawn]_vars

-----------------------------------------------------------------------------
(* Claims *)

\* C1: a round that ran undisturbed (no pause, no restart, no early end) and
\* was ended by the countdown received as many countdown callbacks as the
\* roundTime of the difficulty it was started on (easy 45, normal 30, hard 20).
C1_RoundLastsDifficultyTime ==
    (~running /\ roundTicks >= 0) =>
        roundTicks = difficultySettings[roundDifficulty].roundTime

\* C2: waterPercent is between 0 and 100 (0 and 1000 tenths) in every state.
C2_WaterInRange == waterPercent >= 0 /\ waterPercent <= 1000

\* C2 witness: the meter is full after a round of taps.
C2_Witness == ~running /\ resultsShown /\ waterPercent = 1000

\* C3: a tap that hits a clean drop in a running round adds 10 to score, adds
\* 6 to waterPercent up to 100, leaves lives alone and removes that drop.
C3_CleanTap ==
    [][\A x \in 0..CanvasW, y \in 0..CanvasH :
         LET i == HitIndex(drops, x, y) IN
           (running /\ i # 0 /\ ~drops[i].polluted /\ handlePointer(x, y)) =>
             /\ score' = score + 10
             /\ waterPercent' = Min(1000, waterPercent + 60)
             /\ lives' = lives
             /\ Len(drops') = Len(drops) - 1
             /\ \A k \in 1..Len(drops') :
                  drops'[k] = IF k < i THEN drops[k] ELSE drops[k + 1]]_vars

\* C3 witness: the seventeenth clean tap of a round took the meter from 96 to
\* its cap of 100.
C3_Witness == score = 170 /\ waterPercent = 1000 /\ lives = 3

\* C4: a tap that hits a polluted drop in a running round takes one life and
\* 10 of waterPercent, neither below 0, leaves score alone and removes that drop.
C4_PollutedTap ==
    [][\A x \in 0..CanvasW, y \in 0..CanvasH :
         LET i == HitIndex(drops, x, y) IN
           (running /\ i # 0 /\ drops[i].polluted /\ handlePointer(x, y)) =>
             /\ lives' = Max(0, lives - 1)
             /\ waterPercent' = Max(0, waterPercent - 100)
             /\ score' = score
             /\ Len(drops') = Len(drops) - 1
             /\ \A k \in 1..Len(drops') :
                  drops'[k] = IF k < i THEN drops[k] ELSE drops[k + 1]]_vars

\* C4 witness: one clean tap, then a polluted tap that took the meter from 6
\* to its floor of 0 and a life.
C4_Witness == running /\ score = 10 /\ waterPercent = 0 /\ lives = 2

\* C5: a frame whose update removes fallen drops lowers waterPercent by 1.2
\* for each clean one, not below 0, and by nothing for a polluted one; score
\* and lives are unchanged.  (Only update leaves a non-zero count in missed:
\* every other handler that changes the state clears it.)
C5_MissedDrops ==
    [][missed' # <<0, 0>> =>
         /\ waterPercent' = Max(0, waterPercent - 12 * missed'[1])
         /\ score' = score
         /\ lives' = lives]_vars

\* C5 witness: a frame removed a clean and a polluted drop at once, and the
\* meter went from 6 to 4.8.
C5_Witness == missed = <<1, 1>> /\ waterPercent = 48 /\ score = 10

\* C6: while a round runs, lives is at least 1 and waterPercent below 100; the
\* results of an ended round are titled 'Well Built!' when waterPercent is 100
\* or more and 'Round Complete' otherwise.
C6_RoundEndsAtOnce ==
    /\ running => (lives >= 1 /\ waterPercent < 1000)
    /\ (~running /\ resultsShown) =>
         resultsTitle = IF waterPercent >= 1000 THEN "Well Built!" ELSE "Round Complete"

\* C6 witness: a round ended by a full meter, titled 'Well Built!'.
C6_Witness ==
    ~running /\ resultsShown /\ resultsTitle = "Well Built!" /\ score = 170

C8_ResumeKeepsTimeLeft == [][(paused /\ resumeGame) => timeLeft' = pausedAt]_vars

\* C9: within a round, every spawnInterval that update assigns is at most the
\* spawnInterval before the assignment.
C9_SpawnIntervalNeverGrows ==
    [][(running /\ loop(FillDrops)) => spawnInterval' <= spawnInterval]_vars

\* C10: exactly one countdown interval is live when the game is running and
\* not paused, and none otherwise.
C10_OneCountdown ==
    Cardinality(intervals) = IF running /\ ~paused THEN 1 ELSE 0

\* C11: while the game is paused, a tap on the canvas changes nothing, wherever
\* it lands: score, lives, waterPercent, drops and running are the same after
\* handlePointer as before it.
C11_PausedTapChangesNothing ==
    [][\A x \in 0..CanvasW, y \in 0..CanvasH :
         (paused /\ handlePointer(x, y)) =>
             UNCHANGED <<score, lives, waterPercent, drops, running>>]_vars

\* C12: when no round is running, a tap on the canvas is ignored, wherever it
\* lands: handlePointer leaves score, lives, waterPercent, drops, running and
\* paused as they were.
C12_IdleTapIgnored ==
    [][\A x \in 0..CanvasW, y \in 0..CanvasH :
         (~running /\ handlePointer(x, y)) =>
             UNCHANGED <<score, lives, waterPercent, drops, running, paused>>]_vars

\* C12 witness: a round has ended with a drop still on the canvas, under a tap.
C12_Witness ==
    /\ ~running
    /\ resultsShown
    /\ \E x \in 0..CanvasW, y \in 0..CanvasH : HitIndex(drops, x, y) # 0

\* C13: in a state where running is false or paused is true, an animation
\* frame adds no drop, removes no drop and leaves waterPercent alone; and no
\* animation frame is pending when no round is running (the round has ended
\* or the game was reset).
C13_FramesOnlyInUnpausedRound ==
    /\ [](~running => frames = {})
    /\ [][((~running \/ paused) /\ loop(PlayDrops)) =>
            /\ waterPercent' = waterPercent
            /\ Len(drops') = Len(drops)
            /\ \A i \in 1..Len(drops) :
                 Cardinality({k \in 1..Len(drops') : drops'[k] = drops[i]})
                   = Cardinality({k \in 1..Len(drops) : drops[k] = drops[i]})]_vars

\* C13 witness: the game is paused with drops on the canvas and a frame pending.
C13_Witness ==
    running /\ paused /\ Len(drops) = PlayDrops /\ animationId \in frames

\* C14: whenever update can run (a frame is pending in an unpaused round), the
\* spawn interval it computes from timeLeft lies between the selected
\* difficulty's spawnMin and its starting spawnInterval, inclusive: easy
\* 520..950, normal 340..650, hard 220..420.
C14_SpawnIntervalInRange ==
    (running /\ ~paused /\ animationId \in frames) =>
        LET lo == [easy |-> 520, normal |-> 340, hard |-> 220]
            hi == [easy |-> 950, normal |-> 650, hard |-> 420]
        IN  NextSpawnInterval(currentDifficulty, timeLeft)
              \in lo[currentDifficulty]..hi[currentDifficulty]

\* C15: selecting a difficulty while a round is running leaves lives, timeLeft,
\* score and waterPercent alone, and a frame of that round either keeps
\* spawnInterval or assigns the value on the curve of the difficulty that was
\* selected at startRound.
C15_DifficultyFixedForRound ==
    /\ [][\A d \in Difficulties :
            (running /\ DifficultyClick(d)) =>
                UNCHANGED <<lives, timeLeft, score, waterPercent>>]_vars
    /\ [][(running /\ loop(FillDrops)) =>
            spawnInterval' \in
                {spawnInterval, NextSpawnInterval(roundDifficulty, timeLeft)}]_vars

\* C16: each milestone (50, 100, 150) is pushed to milestonesReached at most
\* once per round, by the clean tap that first brings score to or above it;
\* while a round is running a milestone is in milestonesReached exactly when
\* score is at least that milestone.
C16_MilestonesOncePerRound ==
    /\ [](running =>
            \A m \in {50, 100, 150} :
                (\E j \in 1..Len(milestonesReached) : milestonesReached[j] = m)
                    <=> score >= m)
    /\ [](\A i, j \in 1..Len(milestonesReached) :
            milestonesReached[i] = milestonesReached[j] => i = j)
    /\ [][Len(milestonesReached') > Len(milestonesReached) =>
            /\ score' = score + 10
            /\ \A j \in 1..Len(milestonesReached') :
                 j <= Len(milestonesReached)
                   => milestonesReached'[j] = milestonesReached[j]
            /\ \A j \in (Len(milestonesReached) + 1)..Len(milestonesReached') :
                 score < milestonesReached'[j] /\ milestonesReached'[j] <= score']_vars

\* C16 witness: a running round whose score reached 150, all three milestones
\* announced in order.
C16_Witness ==
    running /\ score = 150 /\ milestonesReached = <<50, 100, 150>>

\* C17: timeLeft is never negative, and a running round whose countdown keeps
\* ticking ends unless it is paused: from every state of an unpaused running
\* round, a state where running is false (or the game has been paused) follows.
C17_RoundEnds ==
    /\ [](timeLeft >= 0)
    /\ (running /\ ~paused) ~> (~running \/ paused)

\* C17 witness: a round left alone was ended by its countdown, at timeLeft 0.
C17_Witness ==
    ~running /\ resultsShown /\ timeLeft = 0 /\ roundTicks = 30

\* C18: paused implies running in every state; pauseGame changes nothing when
\* the game is not running or already paused, and resumeGame changes nothing
\* when the game is not paused.
C18_PausedImpliesRunning ==
    /\ [](paused => running)
    /\ [][((paused \/ ~running) /\ pauseGame) =>
            UNCHANGED <<running, paused, timeLeft, timerId, intervals>>]_vars
    /\ [][(~paused /\ resumeGame) =>
            UNCHANGED <<running, paused, timeLeft, timerId, intervals>>]_vars

\* C18 witness: a round paused after its first second.
C18_Witness ==
    running /\ paused /\ pausedAt = 29 /\ timerId = 0

\* C19: immediately after startRound, whatever the state before it, running is
\* true, paused is false, score and waterPercent are 0, drops and
\* milestonesReached are empty, lives is the selected difficulty's lives (easy
\* 5, normal 3, hard 2) and spawnInterval its starting interval (950, 650, 420).
C19_StartRoundCleanState ==
    [][startRound =>
         /\ running'
         /\ ~paused'
         /\ score' = 0
         /\ waterPercent' = 0
         /\ drops' = <<>>
         /\ milestonesReached' = <<>>
         /\ lives' = [easy |-> 5, normal |-> 3, hard |-> 2][currentDifficulty]
         /\ spawnInterval' =
              [easy |-> 950, normal |-> 650, hard |-> 420][currentDifficulty]]_vars

\* C19 witness: a round on hard just started over a round that was still
\* running (its countdown interval is still live).
C19_Witness ==
    /\ running
    /\ roundTicks = 0
    /\ roundDifficulty = "hard"
    /\ lives = 2
    /\ drops = <<>>
    /\ Cardinality(intervals) = 2

=============================================================================
